---- MODULE Spec2Model ----
(***************************************************************************)
(* radextract: the library function extract.extract_entities, the CLI     *)
(* commands extract_entities ("extract") and show_jsonl_row ("show-row")  *)
(* of cli.py, and the file system they run against.                       *)
(*                                                                         *)
(* A file is a sequence of lines; a line is a string.  json.loads and     *)
(* pathlib.Path.suffix belong to the standard library and are modelled by *)
(* their results on the lines and paths of the model.                     *)
(***************************************************************************)
EXTENDS Integers, Sequences, FiniteSets, TLC

(* ---------------------------- bounds ---------------------------------- *)

\* longest file, in lines
MaxLines == 2

\* most NER items in a record
MaxSpans == 2

\* most relation items in a record
MaxRels == 2

\* most Checkbox.Changed messages of user clicks waiting to be handled
MaxQueue == 2

\* largest token index in a relation formatted (the records have up to 3 tokens)
MaxIndex == 3

\* largest row index passed to show_jsonl_row
MaxRow == 3

(* ------------------------- the environment ---------------------------- *)

None == "None"

\* lines a file may hold
LineTokens == "{\"tokens\": [\"Hello\", \"world\"], \"ner\": [[0, 1, \"test\"]], \"relations\": []}"
LineText == "{\"text\": \"Sample report.\", \"entities\": [[0, 6, \"Sample\", \"test\"]], \"relations\": [[0, 0, 1, 1, \"test_relation\"]]}"
LineNoText == "{\"entities\": [], \"relations\": []}"
LineInvalid == "{invalid json content"
LinePlain == "Test radiology report text."

Lines == {LineTokens, LineText, LineNoText, LineInvalid, LinePlain}

\* json.loads(line): the parsed object, or JSONDecodeError
json_loads(s) ==
    CASE s = LineTokens ->
           [ok |-> TRUE,
            value |-> [tokens |-> <<"Hello", "world">>,
                       ner |-> << <<0, 1, "test">> >>,
                       relations |-> <<>>]]
      [] s = LineText ->
           [ok |-> TRUE,
            value |-> [text |-> "Sample report.",
                       entities |-> << <<0, 6, "Sample", "test">> >>,
                       relations |-> << <<0, 0, 1, 1, "test_relation">> >>]]
      [] s = LineNoText ->
           [ok |-> TRUE,
            value |-> [entities |-> <<>>, relations |-> <<>>]]
      [] OTHER -> [ok |-> FALSE, value |-> "JSONDecodeError"]

Paths == {"/tmp/rows.jsonl", "/tmp/report.txt", "/tmp/report.json",
          "/tmp/ROWS.JSONL", "/tmp/rows"}

OutPath == "/tmp/out.json"

AllPaths == Paths \cup {OutPath}

\* pathlib.Path(p).suffix
PathSuffix(p) ==
    CASE p = "/tmp/rows.jsonl" -> ".jsonl"
      [] p = "/tmp/report.txt" -> ".txt"
      [] p = "/tmp/report.json" -> ".json"
      [] p = "/tmp/out.json" -> ".json"
      [] p = "/tmp/ROWS.JSONL" -> ".JSONL"
      [] OTHER -> ""

RECURSIVE SeqsUpTo(_, _)
SeqsUpTo(S, n) ==
    IF n = 0 THEN {<<>>}
    ELSE LET shorter == SeqsUpTo(S, n - 1)
         IN  shorter \cup {Append(s, x) : s \in shorter, x \in S}

Contents == SeqsUpTo(Lines, MaxLines)

Missing == [exists |-> FALSE, lines |-> <<>>]

File(c) == [exists |-> TRUE, lines |-> c]

\* the whole content of a file: its lines joined by newlines
RECURSIVE JoinLines(_)
JoinLines(ls) ==
    IF ls = <<>> THEN ""
    ELSE IF Len(ls) = 1 THEN ls[1]
    ELSE ls[1] \o "\n" \o JoinLines(Tail(ls))

Texts == {"", "Test radiology report text.",
          "The patient has a fracture in the left femur."}

Rows == -1 .. MaxRow

(* ------------------------------ state --------------------------------- *)

VARIABLES
    fs,            \* path -> file
    cmd,           \* the function running: "idle", "extract_entities", "extract", "show-row"
    pc,            \* its position
    text,          \* extract.extract_entities: argument
    input_file,    \* cli.extract_entities: argument
    output_file,   \* cli.extract_entities: argument (None when not given)
    jsonl_file,    \* show_jsonl_row: argument
    row,           \* show_jsonl_row: argument
    i,             \* show_jsonl_row: loop variable of enumerate(f)
    i_bound,       \* whether i has been assigned
    line,          \* show_jsonl_row: loop variable
    data,          \* show_jsonl_row: json.loads(line)
    viewer,        \* show_jsonl_row: the NERViewer constructed
    nextLine,      \* position of the file iterator (0-based index of the next line)
    opened,        \* paths opened so far
    linesRead,     \* 0-based indices of the lines read from the opened file
    parsed,        \* 0-based indices of the lines handed to json.loads
    viewerRuns,    \* number of run_async() calls started
    viewerDone,    \* number of run_async() calls finished
    stdout,        \* what print() wrote
    result,        \* the value returned
    raised,        \* the exception that left the function
    self_data,             \* NERViewer: self.data
    show_anatomy,          \* NERViewer: reactive
    show_observation,      \* NERViewer: reactive
    selected_relations,    \* NERViewer: reactive
    select_all_relations,  \* NERViewer: reactive
    is_mounted,            \* NERViewer: whether the app is mounted
    checkbox,              \* NERViewer: id of each Checkbox composed -> its value
    queue,                 \* NERViewer: Checkbox.Changed messages not yet handled
    text_static,           \* NERViewer: what the Static #text-static shows
    relation,              \* NERViewer._format_relation: its argument rel
    last_toggled           \* NERViewer: id of the checkbox the user clicked last

vars == <<fs, cmd, pc, text, input_file, output_file, jsonl_file, row, i, i_bound,
          line, data, viewer, nextLine, opened, linesRead, parsed, viewerRuns,
          viewerDone, stdout, result, raised, self_data, show_anatomy,
          show_observation, selected_relations, select_all_relations, is_mounted,
          checkbox, queue, text_static, relation,
          last_toggled>>

\* the state of a NERViewer
viewerVars == <<self_data, show_anatomy, show_observation, selected_relations,
                select_all_relations, is_mounted, checkbox, queue, text_static, relation,
          last_toggled>>

NoException == [type |-> "none", msg |-> "", args |-> <<>>]

\* an exception whose message is the f-string msg with args interpolated
Exception(type, msg, args) == [type |-> type, msg |-> msg, args |-> args]

NoViewer == [constructed |-> FALSE]

NoData == [unset |-> TRUE]

\* JSON values whose type the viewer tests with isinstance: t is the type, and the
\* value is n for an int, s for a str, v for a list
JInt(x) == [t |-> "int", n |-> x, s |-> "", v |-> <<>>]

JStr(x) == [t |-> "str", n |-> 0, s |-> x, v |-> <<>>]

JList(xs) == [t |-> "list", n |-> 0, s |-> "", v |-> xs]

\* no NERViewer is being looked at: the class attributes, nothing composed
NoViewerState ==
    /\ self_data = NoData
    /\ show_anatomy = TRUE
    /\ show_observation = TRUE
    /\ selected_relations = {}
    /\ select_all_relations = FALSE
    /\ is_mounted = FALSE
    /\ checkbox = <<>>
    /\ queue = <<>>
    /\ text_static = ""
    /\ relation = JList(<<>>)
    /\ last_toggled = ""

Init ==
    /\ \E p \in Paths, c \in {File(ls) : ls \in Contents} \cup {Missing},
          o \in {Missing, File(<<>>)} :
         fs = [q \in AllPaths |-> IF q = p THEN c ELSE IF q = OutPath THEN o ELSE Missing]
    /\ cmd = "idle"
    /\ pc = "idle"
    /\ text = ""
    /\ input_file = None
    /\ output_file = None
    /\ jsonl_file = None
    /\ row = 0
    /\ i = 0
    /\ i_bound = FALSE
    /\ line = ""
    /\ data = NoData
    /\ viewer = NoViewer
    /\ nextLine = 0
    /\ opened = {}
    /\ linesRead = {}
    /\ parsed = {}
    /\ viewerRuns = 0
    /\ viewerDone = 0
    /\ stdout = <<>>
    /\ result = None
    /\ raised = NoException
    /\ NoViewerState

(* -------------------- extract.extract_entities ------------------------ *)

\* variant: the entities of the docstring's example instead of the empty list
ExtractResult_Example(t) ==
    [text |-> t,
     entities |-> << <<20, 28, "fracture", "Observation::definitely present">> >>]

\* the dictionary extract.extract_entities returns
ExtractResult(t) == [text |-> t, entities |-> <<>>]

extract_entities ==
    /\ cmd = "idle"
    /\ \E t \in Texts :
         /\ text' = t
         /\ result' = ExtractResult(t)
    /\ cmd' = "extract_entities"
    /\ pc' = "done"
    /\ UNCHANGED viewerVars
    /\ UNCHANGED <<fs, input_file, output_file, jsonl_file, row, i, i_bound, line, data,
                   viewer, nextLine, opened, linesRead, parsed, viewerRuns, viewerDone,
                   stdout, raised>>

(* ----------------------- cli.extract_entities ------------------------- *)

\* the "extract" command: prints what it would do, reads and writes nothing
cli_extract_entities ==
    /\ cmd = "idle"
    /\ \E inp \in AllPaths, out \in {None, OutPath} :
         /\ input_file' = inp
         /\ output_file' = out
         /\ stdout' = IF out # None
                      THEN stdout \o <<"Processing " \o inp,
                                       "Results will be saved to " \o out>>
                      ELSE Append(stdout, "Processing " \o inp)
    /\ cmd' = "extract"
    /\ pc' = "done"
    /\ result' = None
    /\ UNCHANGED viewerVars
    /\ UNCHANGED <<fs, text, jsonl_file, row, i, i_bound, line, data, viewer, nextLine,
                   opened, linesRead, parsed, viewerRuns, viewerDone, raised>>

(* ------------------------------ the app ------------------------------- *)

\* the names under which @app.command registers the commands, in order
AppCommands == <<"extract", "batch", "show-row">>

\* app.help_print: the usage line, then the commands it lists
help_print ==
    /\ cmd = "idle"
    /\ stdout' = stdout \o <<"Usage: rad-extract COMMAND", "Commands">> \o AppCommands
    /\ cmd' = "help_print"
    /\ pc' = "done"
    /\ result' = None
    /\ UNCHANGED viewerVars
    /\ UNCHANGED <<fs, text, input_file, output_file, jsonl_file, row, i, i_bound, line,
                   data, viewer, nextLine, opened, linesRead, parsed, viewerRuns,
                   viewerDone, raised>>

(* -------------------------- show_jsonl_row ---------------------------- *)

\* variant: the extension is checked before the existence of the file
ValidationError_SuffixFirst(p, r) ==
    IF ~(PathSuffix(p) = ".jsonl")
    THEN Exception("ValueError", "File must have .jsonl extension: {jsonl_file}", <<p>>)
    ELSE IF ~fs[p].exists
    THEN Exception("ValueError", "File does not exist: {jsonl_file}", <<p>>)
    ELSE IF r < 0
    THEN Exception("ValueError", "Row index must be non-negative, got: {row}", <<r>>)
    ELSE NoException

\* variant: the row is checked before the extension
ValidationError_RowFirst(p, r) ==
    IF ~fs[p].exists
    THEN Exception("ValueError", "File does not exist: {jsonl_file}", <<p>>)
    ELSE IF r < 0
    THEN Exception("ValueError", "Row index must be non-negative, got: {row}", <<r>>)
    ELSE IF ~(PathSuffix(p) = ".jsonl")
    THEN Exception("ValueError", "File must have .jsonl extension: {jsonl_file}", <<p>>)
    ELSE NoException

\* variant: the row is not checked
ValidationError_NoRowCheck(p, r) ==
    IF ~fs[p].exists
    THEN Exception("ValueError", "File does not exist: {jsonl_file}", <<p>>)
    ELSE IF ~(PathSuffix(p) = ".jsonl")
    THEN Exception("ValueError", "File must have .jsonl extension: {jsonl_file}", <<p>>)
    ELSE NoException

\* the argument checks, in the order the function makes them
ValidationError(p, r) ==
    IF ~fs[p].exists
    THEN Exception("ValueError", "File does not exist: {jsonl_file}", <<p>>)
    ELSE IF ~(PathSuffix(p) = ".jsonl")
    THEN Exception("ValueError", "File must have .jsonl extension: {jsonl_file}", <<p>>)
    ELSE IF r < 0
    THEN Exception("ValueError", "Row index must be non-negative, got: {row}", <<r>>)
    ELSE NoException

\* variant: the row index taken as 1-based
RowMatches_OneBased(idx, r) == idx + 1 = r

\* `if i == row`
RowMatches(idx, r) == idx = r

show_jsonl_row ==
    /\ cmd = "idle"
    /\ \E p \in Paths, r \in Rows :
         /\ jsonl_file' = p
         /\ row' = r
    /\ cmd' = "show-row"
    /\ pc' = "validate"
    /\ UNCHANGED viewerVars
    /\ UNCHANGED <<fs, text, input_file, output_file, i, i_bound, line, data, viewer,
                   nextLine, opened, linesRead, parsed, viewerRuns, viewerDone, stdout,
                   result, raised>>

Validate ==
    /\ cmd = "show-row"
    /\ pc = "validate"
    /\ LET e == ValidationError(jsonl_file, row)
       IN  IF e.type # "none"
           THEN /\ raised' = e
                /\ pc' = "done"
           ELSE /\ raised' = raised
                /\ pc' = "open"
    /\ UNCHANGED viewerVars
    /\ UNCHANGED <<fs, cmd, text, input_file, output_file, jsonl_file, row, i, i_bound,
                   line, data, viewer, nextLine, opened, linesRead, parsed, viewerRuns,
                   viewerDone, stdout, result>>

\* `with open(jsonl_file, "r", encoding="utf-8") as f`
OpenFile ==
    /\ cmd = "show-row"
    /\ pc = "open"
    /\ opened' = opened \cup {jsonl_file}
    /\ nextLine' = 0
    /\ pc' = "loop"
    /\ UNCHANGED viewerVars
    /\ UNCHANGED <<fs, cmd, text, input_file, output_file, jsonl_file, row, i, i_bound,
                   line, data, viewer, linesRead, parsed, viewerRuns, viewerDone, stdout,
                   result, raised>>

\* one iteration of `for i, line in enumerate(f)`, or its end
NextLine ==
    /\ cmd = "show-row"
    /\ pc = "loop"
    /\ LET ls == fs[jsonl_file].lines
       IN  IF nextLine < Len(ls)
           THEN /\ i' = nextLine
                /\ i_bound' = TRUE
                /\ line' = ls[nextLine + 1]
                /\ linesRead' = linesRead \cup {nextLine}
                /\ nextLine' = nextLine + 1
                /\ pc' = IF RowMatches(nextLine, row) THEN "parse" ELSE "loop"
           ELSE /\ pc' = "exhausted"
                /\ UNCHANGED <<i, i_bound, line, linesRead, nextLine>>
    /\ UNCHANGED viewerVars
    /\ UNCHANGED <<fs, cmd, text, input_file, output_file, jsonl_file, row, data, viewer,
                   opened, parsed, viewerRuns, viewerDone, stdout, result, raised>>

\* variant: no except clause, the JSONDecodeError leaves show_jsonl_row as it is
InvalidJson_Uncaught(r, e) == Exception("JSONDecodeError", "{e}", <<e>>)

\* `except json.JSONDecodeError as e: raise ValueError(...)`
InvalidJson(r, e) == Exception("ValueError", "Invalid JSON at row {row}: {e}", <<r, e>>)

\* `data = json.loads(line)`; a JSONDecodeError becomes a ValueError
ParseLine ==
    /\ cmd = "show-row"
    /\ pc = "parse"
    /\ parsed' = parsed \cup {i}
    /\ LET r == json_loads(line)
       IN  IF r.ok
           THEN /\ data' = r.value
                /\ pc' = "construct"
                /\ raised' = raised
           ELSE /\ data' = data
                /\ pc' = "done"
                /\ raised' = InvalidJson(row, r.value)
    /\ UNCHANGED viewerVars
    /\ UNCHANGED <<fs, cmd, text, input_file, output_file, jsonl_file, row, i, i_bound,
                   line, viewer, nextLine, opened, linesRead, viewerRuns, viewerDone,
                   stdout, result>>

\* NERViewer.__init__
NERViewer(d) == [constructed |-> TRUE, data |-> d]

\* `viewer = NERViewer(data)` and the start of `await viewer.run_async()`
StartViewer ==
    /\ cmd = "show-row"
    /\ pc = "construct"
    /\ viewer' = NERViewer(data)
    /\ viewerRuns' = viewerRuns + 1
    /\ pc' = "viewer"
    /\ UNCHANGED viewerVars
    /\ UNCHANGED <<fs, cmd, text, input_file, output_file, jsonl_file, row, i, i_bound,
                   line, data, nextLine, opened, linesRead, parsed, viewerDone, stdout,
                   result, raised>>

\* run_async() finishes; `return`
ViewerFinished ==
    /\ cmd = "show-row"
    /\ pc = "viewer"
    /\ viewerDone' = viewerDone + 1
    /\ result' = None
    /\ pc' = "done"
    /\ UNCHANGED viewerVars
    /\ UNCHANGED <<fs, cmd, text, input_file, output_file, jsonl_file, row, i, i_bound,
                   line, data, viewer, nextLine, opened, linesRead, parsed, viewerRuns,
                   stdout, raised>>

\* the raise after the loop; i is unbound when the loop body never ran
OutOfBounds ==
    /\ cmd = "show-row"
    /\ pc = "exhausted"
    /\ raised' = IF i_bound
                 THEN Exception("ValueError",
                                "Row index {row} out of bounds (file has {i + 1} rows)",
                                <<row, i + 1>>)
                 ELSE Exception("UnboundLocalError",
                                "cannot access local variable 'i' where it is not associated with a value",
                                <<>>)
    /\ pc' = "done"
    /\ UNCHANGED viewerVars
    /\ UNCHANGED <<fs, cmd, text, input_file, output_file, jsonl_file, row, i, i_bound,
                   line, data, viewer, nextLine, opened, linesRead, parsed, viewerRuns,
                   viewerDone, stdout, result>>

(* ----------------------------- NERViewer ------------------------------ *)

\* isinstance(x, list)
IsList(x) == x.t = "list"

\* a NER item [start, end, label]
Span(start, end, label) == JList(<<JInt(start), JInt(end), JStr(label)>>)

\* a relation item [start1, end1, start2, end2, relation_type]
Relation(start1, end1, start2, end2, relation_type) ==
    JList(<<JInt(start1), JInt(end1), JInt(start2), JInt(end2), JStr(relation_type)>>)

\* the value a call returned, or the exception it raised
Ok(x) == [ok |-> TRUE, value |-> x]

Raise(e) == [ok |-> FALSE, value |-> e]

\* `sub in x` on strings
Contains(sub, x) ==
    \E k \in 1 .. Len(x) - Len(sub) + 1 : SubSeq(x, k, k + Len(sub) - 1) = sub

\* self.data.get(key, [])
Get(d, key) == IF key \in DOMAIN d THEN d[key] ELSE JList(<<>>)

RECURSIVE Flatten(_)
Flatten(sentences) ==
    IF sentences = <<>> THEN <<>> ELSE Head(sentences) \o Flatten(Tail(sentences))

\* variant: "sentences" takes precedence over "tokens"
Tokens_SentencesFirst(d) ==
    IF "sentences" \in DOMAIN d THEN Flatten(d.sentences)
    ELSE IF "tokens" \in DOMAIN d THEN d.tokens
    ELSE <<>>

\* the tokens of a record: "tokens", else the flattened "sentences", else none
Tokens(d) ==
    IF "tokens" \in DOMAIN d THEN d.tokens
    ELSE IF "sentences" \in DOMAIN d THEN Flatten(d.sentences)
    ELSE <<>>

\* variant: any list whose first element is a list is taken as nested
NestedOrFlat_Lenient(xs) ==
    IF Len(xs.v) > 0 /\ IsList(xs.v[1]) /\ Len(xs.v[1].v) = 0 THEN Ok(xs.v[1].v)
    ELSE IF Len(xs.v) > 0 /\ IsList(xs.v[1]) /\ IsList(xs.v[1].v[1]) THEN Ok(xs.v[1].v)
    ELSE Ok(xs.v)

\* `xs[0] if xs and isinstance(xs[0], list) and isinstance(xs[0][0], list) else xs`;
\* xs[0][0] raises IndexError when xs[0] is the empty list
NestedOrFlat(xs) ==
    IF Len(xs.v) = 0 THEN Ok(xs.v)
    ELSE IF ~IsList(xs.v[1]) THEN Ok(xs.v)
    ELSE IF Len(xs.v[1].v) = 0 THEN Raise("IndexError")
    ELSE IF IsList(xs.v[1].v[1]) THEN Ok(xs.v[1].v)
    ELSE Ok(xs.v)

\* variant: "Observation::definitely present" shown green, as in display_data
ColorOf_ObservationGreen(label) ==
    CASE label = "Anatomy::definitely present" -> "green"
      [] label = "Observation::definitely present" -> "green"
      [] label = "Anatomy::definitely absent" -> "red"
      [] label = "Observation::definitely absent" -> "red"
      [] label = "Observation::uncertain" -> "yellow"
      [] label = "Anatomy::uncertain" -> "yellow"
      [] OTHER -> "yellow"

\* color_map.get(label, "yellow")
ColorOf(label) ==
    CASE label = "Anatomy::definitely present" -> "green"
      [] label = "Observation::definitely present" -> "blue"
      [] label = "Anatomy::definitely absent" -> "red"
      [] label = "Observation::definitely absent" -> "red"
      [] label = "Observation::uncertain" -> "yellow"
      [] label = "Anatomy::uncertain" -> "yellow"
      [] OTHER -> "yellow"

\* variant: the filters are not applied
Filtered_Never(label, sa, so) == FALSE

\* the two `continue` tests on a NER item's label
Filtered(label, sa, so) ==
    \/ Contains("Anatomy", label) /\ ~sa
    \/ Contains("Observation", label) /\ ~so

\* `for idx in range(start, end + 1): token_colors[idx] = color`
Paint(token_colors, start, end, color) ==
    [idx \in DOMAIN token_colors \cup (start .. end) |->
        IF idx \in start .. end THEN color ELSE token_colors[idx]]

\* variant: range(start, end), the end exclusive
PaintItem_EndExclusive(token_colors, item, sa, so) ==
    IF Len(item.v) >= 3
    THEN IF Filtered(item.v[3].s, sa, so) THEN token_colors
         ELSE Paint(token_colors, item.v[1].n, item.v[2].n - 1, ColorOf(item.v[3].s))
    ELSE token_colors

\* the body of `for item in ner_items`
PaintItem(token_colors, item, sa, so) ==
    IF Len(item.v) >= 3
    THEN IF Filtered(item.v[3].s, sa, so) THEN token_colors
         ELSE Paint(token_colors, item.v[1].n, item.v[2].n, ColorOf(item.v[3].s))
    ELSE token_colors

\* token_colors after the loop over ner_items
RECURSIVE TokenColors(_, _, _, _)
TokenColors(ner_items, token_colors, sa, so) ==
    IF ner_items = <<>> THEN token_colors
    ELSE TokenColors(Tail(ner_items), PaintItem(token_colors, Head(ner_items), sa, so),
                     sa, so)

EmptyDict == [idx \in {} |-> ""]

\* variant: only the first entity of a relation is marked
RelationTokens_FirstEntity(rel) ==
    IF Len(rel.v) >= 5 THEN rel.v[1].n .. rel.v[2].n ELSE {}

\* the token indices one selected relation marks: both of its entities
RelationTokens(rel) ==
    IF Len(rel.v) >= 5
    THEN (rel.v[1].n .. rel.v[2].n) \cup (rel.v[3].n .. rel.v[4].n)
    ELSE {}

\* the token indices of the selected relations; the nested-format test may raise
SelectedRelationTokens(relations, selected) ==
    IF selected # {} /\ Len(relations.v) > 0
    THEN LET relation_items == NestedOrFlat(relations)
         IN  IF ~relation_items.ok THEN relation_items
             ELSE Ok(UNION {RelationTokens(relation_items.value[rel_idx + 1]) :
                              rel_idx \in {x \in selected : x < Len(relation_items.value)}})
    ELSE Ok({})

\* f"[{markup}]{token}[/{markup}]", or the bare token
Wrap(markup, token) ==
    IF markup = "" THEN token
    ELSE "[" \o markup \o "]" \o token \o "[/" \o markup \o "]"

\* variant: joined without the separating space
Join_NoSpace(strs) ==
    IF strs = <<>> THEN ""
    ELSE LET RECURSIVE J(_)
             J(xs) == IF xs = <<>> THEN "" ELSE Head(xs) \o J(Tail(xs))
         IN  J(strs)

\* " ".join(strs)
RECURSIVE Join(_)
Join(strs) ==
    IF strs = <<>> THEN ""
    ELSE IF Len(strs) = 1 THEN strs[1]
    ELSE strs[1] \o " " \o Join(Tail(strs))

\* variant: the NER color is looked up before the selected relations
TokenMarkup_ColorFirst(idx, token_colors, selected_relation_tokens) ==
    IF idx \in DOMAIN token_colors THEN token_colors[idx]
    ELSE IF idx \in selected_relation_tokens THEN "underline on yellow"
    ELSE ""

\* the markup of the token at 0-based index idx in viewer.py
TokenMarkup(idx, token_colors, selected_relation_tokens) ==
    IF idx \in selected_relation_tokens THEN "underline on yellow"
    ELSE IF idx \in DOMAIN token_colors THEN token_colors[idx]
    ELSE ""

\* the markup of the token at 0-based index idx in cli.py, where the selected
\* relations write "yellow" into token_colors
cli_TokenMarkup(idx, token_colors, selected_relation_tokens) ==
    IF idx \in selected_relation_tokens THEN "yellow"
    ELSE IF idx \in DOMAIN token_colors THEN token_colors[idx]
    ELSE ""

\* viewer.NERViewer._render_text
RenderText(d, sa, so, selected) ==
    LET tokens == Tokens(d)
        ner_items == NestedOrFlat(Get(d, "ner"))
        marked == SelectedRelationTokens(Get(d, "relations"), selected)
    IN  IF ~ner_items.ok THEN ner_items
        ELSE IF ~marked.ok THEN marked
        ELSE LET token_colors == TokenColors(ner_items.value, EmptyDict, sa, so)
             IN  Ok(Join([k \in 1 .. Len(tokens) |->
                            Wrap(TokenMarkup(k - 1, token_colors, marked.value),
                                 tokens[k])]))

\* cli.NERViewer._render_text
cli_RenderText(d, sa, so, selected) ==
    LET tokens == Tokens(d)
        ner_items == NestedOrFlat(Get(d, "ner"))
        marked == SelectedRelationTokens(Get(d, "relations"), selected)
    IN  IF ~ner_items.ok THEN ner_items
        ELSE IF ~marked.ok THEN marked
        ELSE LET token_colors == TokenColors(ner_items.value, EmptyDict, sa, so)
             IN  Ok(Join([k \in 1 .. Len(tokens) |->
                            Wrap(cli_TokenMarkup(k - 1, token_colors, marked.value),
                                 tokens[k])]))

\* a call of viewer.NERViewer._render_text on the viewer's state
viewer_render_text ==
    /\ cmd = "idle"
    /\ self_data # NoData
    /\ ~is_mounted
    /\ LET r == RenderText(self_data, show_anatomy, show_observation, selected_relations)
       IN  /\ result' = IF r.ok THEN r.value ELSE None
           /\ raised' = IF r.ok THEN raised ELSE Exception(r.value, "", <<>>)
    /\ cmd' = "viewer._render_text"
    /\ pc' = "done"
    /\ UNCHANGED viewerVars
    /\ UNCHANGED <<fs, text, input_file, output_file, jsonl_file, row, i, i_bound, line,
                   data, viewer, nextLine, opened, linesRead, parsed, viewerRuns,
                   viewerDone, stdout>>

\* a call of cli.NERViewer._render_text on the viewer's state
cli_render_text ==
    /\ cmd = "idle"
    /\ self_data # NoData
    /\ ~is_mounted
    /\ LET r == cli_RenderText(self_data, show_anatomy, show_observation,
                               selected_relations)
       IN  /\ result' = IF r.ok THEN r.value ELSE None
           /\ raised' = IF r.ok THEN raised ELSE Exception(r.value, "", <<>>)
    /\ cmd' = "cli._render_text"
    /\ pc' = "done"
    /\ UNCHANGED viewerVars
    /\ UNCHANGED <<fs, text, input_file, output_file, jsonl_file, row, i, i_bound, line,
                   data, viewer, nextLine, opened, linesRead, parsed, viewerRuns,
                   viewerDone, stdout>>


(* ---------------- the records and viewer states rendered -------------- *)

\* no command of the CLI is running and no file exists
CliIdle ==
    /\ fs = [q \in AllPaths |-> Missing]
    /\ cmd = "idle"
    /\ pc = "idle"
    /\ text = ""
    /\ input_file = None
    /\ output_file = None
    /\ jsonl_file = None
    /\ row = 0
    /\ i = 0
    /\ i_bound = FALSE
    /\ line = ""
    /\ data = NoData
    /\ viewer = NoViewer
    /\ nextLine = 0
    /\ opened = {}
    /\ linesRead = {}
    /\ parsed = {}
    /\ viewerRuns = 0
    /\ viewerDone = 0
    /\ stdout = <<>>
    /\ result = None
    /\ raised = NoException

\* a dictionary without keys
EmptyRecord == [key \in {} |-> JList(<<>>)]

\* the "tokens" and "sentences" keys of a record: one, both or neither
TokenKeys ==
    { [tokens |-> <<"lung", "is", "clear">>],
      [sentences |-> << <<"lung">>, <<"is", "clear">> >>],
      [tokens |-> <<"no", "mass">>, sentences |-> << <<"lung">>, <<"is", "clear">> >>],
      EmptyRecord }

\* NER items: every label of color_map, labels outside it, a range that runs past
\* the tokens, a range that starts before them, an item with fewer than 3 fields
NerPool ==
    { Span(0, 1, "Anatomy::definitely present"),
      Span(1, 2, "Observation::definitely present"),
      Span(0, 0, "Anatomy::definitely absent"),
      Span(2, 2, "Observation::definitely absent"),
      Span(1, 1, "Observation::uncertain"),
      Span(0, 2, "Anatomy::uncertain"),
      Span(1, 5, "test"),
      Span(-1, 0, "Anatomy::possible"),
      JList(<<JInt(0), JInt(1)>>) }

NerLists == SeqsUpTo(NerPool, MaxSpans)

\* the "ner" key of a record: absent, a flat list of items, or a list wrapping it
NerKeys ==
    {EmptyRecord}
    \cup {[ner |-> JList(items)] : items \in NerLists}
    \cup {[ner |-> JList(<<JList(items)>>)] : items \in NerLists}

OneRelation == JList(<<Relation(0, 0, 2, 2, "located_at")>>)

\* viewers rendered for their NER items: every record shape, filter flags either
\* way, no relation or one selected relation
InitNer ==
    /\ CliIdle
    /\ \E tk \in TokenKeys, nk \in NerKeys, sa \in BOOLEAN, so \in BOOLEAN,
          withRelation \in BOOLEAN :
         /\ self_data = IF withRelation THEN tk @@ nk @@ [relations |-> OneRelation]
                        ELSE tk @@ nk
         /\ show_anatomy = sa
         /\ show_observation = so
         /\ selected_relations = IF withRelation THEN {0} ELSE {}
    /\ select_all_relations = FALSE
    /\ is_mounted = FALSE
    /\ checkbox = <<>>
    /\ queue = <<>>
    /\ text_static = ""
    /\ relation = JList(<<>>)
    /\ last_toggled = ""

NextRender ==
    \/ viewer_render_text
    \/ cli_render_text

SpecNer == InitNer /\ [][NextRender]_vars


\* relation items: entities apart, entities overlapping NER spans, a range past the
\* tokens and one before them, an item with fewer than 5 fields
RelPool ==
    { Relation(0, 0, 2, 2, "located_at"),
      Relation(1, 2, 0, 0, "modify"),
      Relation(2, 5, -1, 0, "suggestive_of"),
      JList(<<JInt(0), JInt(0), JInt(1), JInt(1)>>) }

RelLists == SeqsUpTo(RelPool, MaxRels)

\* the "relations" key of a record: absent, a flat list of items, or a list wrapping it
RelKeys ==
    {EmptyRecord}
    \cup {[relations |-> JList(items)] : items \in RelLists}
    \cup {[relations |-> JList(<<JList(items)>>)] : items \in RelLists}

\* the "ner" key of the records rendered for their relations
RelSpecNerKeys ==
    { EmptyRecord,
      [ner |-> JList(<<Span(0, 1, "Anatomy::definitely present")>>)],
      [ner |-> JList(<<Span(0, 2, "test")>>)] }

\* viewers rendered for their relations: any set of selected indices, one past the
\* longest list included, filter flags either way
InitRel ==
    /\ CliIdle
    /\ \E nk \in RelSpecNerKeys, rk \in RelKeys, sa \in BOOLEAN, so \in BOOLEAN,
          selected \in SUBSET (0 .. MaxRels) :
         /\ self_data = [tokens |-> <<"lung", "is", "clear">>] @@ nk @@ rk
         /\ show_anatomy = sa
         /\ show_observation = so
         /\ selected_relations = selected
    /\ select_all_relations = FALSE
    /\ is_mounted = FALSE
    /\ checkbox = <<>>
    /\ queue = <<>>
    /\ text_static = ""
    /\ relation = JList(<<>>)
    /\ last_toggled = ""

SpecRel == InitRel /\ [][NextRender]_vars


(* ------------------------- _format_relation --------------------------- *)

Min(a, b) == IF a < b THEN a ELSE b

Max(a, b) == IF a > b THEN a ELSE b

\* xs[start:stop] of Python: negative bounds count from the end, all are clamped
PySlice(xs, start, stop) ==
    LET n == Len(xs)
        lo == IF start < 0 THEN Max(start + n, 0) ELSE Min(start, n)
        hi == IF stop < 0 THEN Max(stop + n, 0) ELSE Min(stop, n)
    IN  SubSeq(xs, lo + 1, hi)

\* repr() of a JSON value, and so str() of a list
RECURSIVE PyRepr(_)
PyRepr(x) ==
    IF x.t = "int" THEN ToString(x.n)
    ELSE IF x.t = "str" THEN "'" \o x.s \o "'"
    ELSE LET RECURSIVE Elems(_)
             Elems(xs) == IF xs = <<>> THEN ""
                          ELSE IF Len(xs) = 1 THEN PyRepr(xs[1])
                          ELSE PyRepr(xs[1]) \o ", " \o Elems(Tail(xs))
         IN  "[" \o Elems(x.v) \o "]"

\* variant: tokens[start:end], the end exclusive
GroupTokens_EndExclusive(tokens, start, end) ==
    IF tokens # <<>> THEN PySlice(tokens, start, end) ELSE <<>>

\* viewer.py: `tokens[start : end + 1] if tokens else []`
GroupTokens(tokens, start, end) ==
    IF tokens # <<>> THEN PySlice(tokens, start, end + 1) ELSE <<>>

\* cli.py: `tokens[start:end + 1] if start < len(tokens) and end < len(tokens) else []`
cli_GroupTokens(tokens, start, end) ==
    IF start < Len(tokens) /\ end < Len(tokens)
    THEN PySlice(tokens, start, end + 1)
    ELSE <<>>

\* viewer.py: the joined tokens, or the indices when there are none
GroupText(group_tokens, start, end) ==
    IF group_tokens # <<>> THEN Join(group_tokens)
    ELSE "⟦" \o ToString(start) \o ":" \o ToString(end) \o "⟧"

\* viewer.NERViewer._format_relation
FormatRelation(d, r) ==
    LET tokens == Tokens(d)
    IN  IF Len(r.v) >= 5
        THEN LET start1 == r.v[1].n
                 end1 == r.v[2].n
                 start2 == r.v[3].n
                 end2 == r.v[4].n
                 relation_type == r.v[5].s
                 group1_text == GroupText(GroupTokens(tokens, start1, end1), start1, end1)
                 group2_text == GroupText(GroupTokens(tokens, start2, end2), start2, end2)
             IN  relation_type \o ": ⟦" \o group1_text \o "⟧ → ⟦" \o group2_text \o "⟧"
        ELSE PyRepr(r)

\* cli.NERViewer._format_relation
cli_FormatRelation(d, r) ==
    LET tokens == Tokens(d)
    IN  IF Len(r.v) >= 5
        THEN LET start1 == r.v[1].n
                 end1 == r.v[2].n
                 start2 == r.v[3].n
                 end2 == r.v[4].n
                 relation_type == r.v[5].s
                 group1_text == Join(cli_GroupTokens(tokens, start1, end1))
                 group2_text == Join(cli_GroupTokens(tokens, start2, end2))
             IN  relation_type \o ": [" \o group1_text \o "] -> [" \o group2_text \o "]"
        ELSE PyRepr(r)

\* the relations formatted: first entity over every pair of indices, second entity
\* within, partly past and wholly past the tokens; items with fewer than 5 fields
FormatRels ==
    {Relation(a, b, c[1], c[2], "located_at") :
        a \in -1 .. MaxIndex, b \in -1 .. MaxIndex, c \in {<<0, 0>>, <<1, 4>>, <<3, 3>>}}
    \cup {JList(<<JInt(0), JInt(1)>>), JList(<<JInt(0), JInt(1), JInt(1), JInt(2)>>),
          JList(<<>>)}

\* a call of viewer.NERViewer._format_relation
viewer_format_relation ==
    /\ cmd = "idle"
    /\ self_data # NoData
    /\ ~is_mounted
    /\ \E r \in FormatRels :
         /\ relation' = r
         /\ result' = FormatRelation(self_data, r)
    /\ cmd' = "viewer._format_relation"
    /\ pc' = "done"
    /\ UNCHANGED <<self_data, show_anatomy, show_observation, selected_relations,
                   select_all_relations, is_mounted, checkbox, queue, text_static,
                   last_toggled>>
    /\ UNCHANGED <<fs, text, input_file, output_file, jsonl_file, row, i, i_bound, line,
                   data, viewer, nextLine, opened, linesRead, parsed, viewerRuns,
                   viewerDone, stdout, raised>>

\* a call of cli.NERViewer._format_relation
cli_format_relation ==
    /\ cmd = "idle"
    /\ self_data # NoData
    /\ ~is_mounted
    /\ \E r \in FormatRels :
         /\ relation' = r
         /\ result' = cli_FormatRelation(self_data, r)
    /\ cmd' = "cli._format_relation"
    /\ pc' = "done"
    /\ UNCHANGED <<self_data, show_anatomy, show_observation, selected_relations,
                   select_all_relations, is_mounted, checkbox, queue, text_static,
                   last_toggled>>
    /\ UNCHANGED <<fs, text, input_file, output_file, jsonl_file, row, i, i_bound, line,
                   data, viewer, nextLine, opened, linesRead, parsed, viewerRuns,
                   viewerDone, stdout, raised>>

\* viewers whose relations are formatted: every record shape
InitFormat ==
    /\ CliIdle
    /\ self_data \in TokenKeys
    /\ show_anatomy = TRUE
    /\ show_observation = TRUE
    /\ selected_relations = {}
    /\ select_all_relations = FALSE
    /\ is_mounted = FALSE
    /\ checkbox = <<>>
    /\ queue = <<>>
    /\ text_static = ""
    /\ relation = JList(<<>>)
    /\ last_toggled = ""

NextFormat ==
    \/ viewer_format_relation
    \/ cli_format_relation

SpecFormat == InitFormat /\ [][NextFormat]_vars


(* ------------------------ NERViewer, mounted -------------------------- *)

\* s.startswith(prefix)
StartsWith(s, prefix) ==
    Len(s) >= Len(prefix) /\ SubSeq(s, 1, Len(prefix)) = prefix

\* s.split("-")
RECURSIVE Split(_)
Split(s) ==
    IF \A k \in 1 .. Len(s) : SubSeq(s, k, k) # "-" THEN <<s>>
    ELSE LET k == CHOOSE k \in 1 .. Len(s) :
                     /\ SubSeq(s, k, k) = "-"
                     /\ \A j \in 1 .. k - 1 : SubSeq(s, j, j) # "-"
         IN  <<SubSeq(s, 1, k - 1)>> \o Split(SubSeq(s, k + 1, Len(s)))

\* int(s) for the decimal numerals relation ids end with
PyInt(s) == CHOOSE n \in 0 .. 9 : ToString(n) = s

\* f"relation-{i}"
RelationId(k) == "relation-" \o ToString(k)

\* Checkbox(label, value=...)
Checkbox(label, value) == [label |-> label, value |-> value]

\* the checkboxes compose() yields: the two filters, and when there are relation
\* items "Select All" and one checkbox for each item
Checkboxes(d, relation_items) ==
    LET filters == {"checkbox-anatomy", "checkbox-observation"}
        relations == IF relation_items = <<>> THEN {}
                     ELSE {"select-all-relations"}
                          \cup {RelationId(k) : k \in 0 .. Len(relation_items) - 1}
    IN  [c \in filters \cup relations |->
           IF c = "checkbox-anatomy" THEN Checkbox("Show Anatomy", TRUE)
           ELSE IF c = "checkbox-observation" THEN Checkbox("Show Observation", TRUE)
           ELSE IF c = "select-all-relations" THEN Checkbox("Select All", FALSE)
           ELSE Checkbox(FormatRelation(d, relation_items[PyInt(Split(c)[2]) + 1]), FALSE)]

\* compose() and the mount: the text widget shows _render_text(), the checkboxes
\* have their initial values; the nested-format tests may raise IndexError
compose ==
    /\ self_data # NoData
    /\ ~is_mounted
    /\ raised = NoException
    /\ LET rendered == RenderText(self_data, show_anatomy, show_observation,
                                  selected_relations)
           relation_items == NestedOrFlat(Get(self_data, "relations"))
       IN  IF ~rendered.ok
           THEN /\ raised' = Exception(rendered.value, "", <<>>)
                /\ UNCHANGED <<is_mounted, checkbox, queue, text_static>>
           ELSE IF ~relation_items.ok
           THEN /\ raised' = Exception(relation_items.value, "", <<>>)
                /\ UNCHANGED <<is_mounted, checkbox, queue, text_static>>
           ELSE /\ checkbox' = Checkboxes(self_data, relation_items.value)
                /\ queue' = [c \in DOMAIN Checkboxes(self_data, relation_items.value)
                               |-> <<>>]
                /\ text_static' = rendered.value
                /\ is_mounted' = TRUE
                /\ raised' = raised
    /\ UNCHANGED <<self_data, show_anatomy, show_observation, selected_relations,
                   select_all_relations, relation, last_toggled>>
    /\ UNCHANGED <<fs, cmd, pc, text, input_file, output_file, jsonl_file, row, i,
                   i_bound, line, data, viewer, nextLine, opened, linesRead, parsed,
                   viewerRuns, viewerDone, stdout, result>>

\* the Checkbox.Changed messages posted and not yet handled
RECURSIVE SumLen(_, _)
SumLen(q, ids) ==
    IF ids = {} THEN 0
    ELSE LET c == CHOOSE c \in ids : TRUE
         IN  Len(q[c]) + SumLen(q, ids \ {c})

Pending == SumLen(queue, DOMAIN queue)

\* the user clicks a checkbox: its value flips and it posts Checkbox.Changed
toggle ==
    /\ is_mounted
    /\ Pending < MaxQueue
    /\ \E id \in DOMAIN checkbox :
         /\ checkbox' = [checkbox EXCEPT ![id].value = ~@]
         /\ queue' = [queue EXCEPT ![id] = Append(@, ~checkbox[id].value)]
         /\ last_toggled' = id
    /\ UNCHANGED <<self_data, show_anatomy, show_observation, selected_relations,
                   select_all_relations, is_mounted, text_static, relation>>
    /\ UNCHANGED <<fs, cmd, pc, text, input_file, output_file, jsonl_file, row, i,
                   i_bound, line, data, viewer, nextLine, opened, linesRead, parsed,
                   viewerRuns, viewerDone, stdout, result, raised>>

\* variant: the text widget is not found, the update is skipped
UpdateTextDisplay_Skipped(sa, so, selected, shown) == shown

\* _update_text_display: the widget shows _render_text(); an exception is swallowed
UpdateTextDisplay(sa, so, selected, shown) ==
    LET rendered == RenderText(self_data, sa, so, selected)
    IN  IF rendered.ok THEN rendered.value ELSE shown

\* watch_show_anatomy, watch_show_observation, watch_selected_relations: called
\* when the reactive has changed; what the text widget shows afterwards
WatchText(changed, sa, so, selected) ==
    IF changed /\ is_mounted
    THEN UpdateTextDisplay(sa, so, selected, text_static)
    ELSE text_static

\* variant: every relation checkbox shown is counted
SelectAllCount_Items(d) ==
    IF NestedOrFlat(Get(d, "relations")).ok
    THEN Len(NestedOrFlat(Get(d, "relations")).value)
    ELSE 0

\* `len(relations)` of watch_select_all_relations
SelectAllCount(d) == Len(Get(d, "relations").v)

\* variant: the relation checked becomes the only one selected
NewSelected_Only(selected, relation_idx, value) ==
    IF value THEN {relation_idx} ELSE {}

\* `new_selected = set(self.selected_relations)`, then add or discard relation_idx
NewSelected(selected, relation_idx, value) ==
    IF value THEN selected \cup {relation_idx} ELSE selected \ {relation_idx}

\* on_checkbox_changed for one Checkbox.Changed message, with the watchers the
\* assignments call; messages of one checkbox are handled in the order posted
on_checkbox_changed ==
    /\ is_mounted
    /\ \E id \in DOMAIN queue :
         /\ queue[id] # <<>>
         /\ LET value == Head(queue[id])
                rest == [queue EXCEPT ![id] = Tail(@)]
            IN  IF id = "checkbox-anatomy"
                THEN /\ show_anatomy' = value
                     /\ text_static' = WatchText(value # show_anatomy, value,
                                                 show_observation, selected_relations)
                     /\ queue' = rest
                     /\ UNCHANGED <<show_observation, selected_relations,
                                    select_all_relations, checkbox>>
                ELSE IF id = "checkbox-observation"
                THEN /\ show_observation' = value
                     /\ text_static' = WatchText(value # show_observation, show_anatomy,
                                                 value, selected_relations)
                     /\ queue' = rest
                     /\ UNCHANGED <<show_anatomy, selected_relations,
                                    select_all_relations, checkbox>>
                ELSE IF id = "select-all-relations"
                THEN LET watched == value # select_all_relations /\ is_mounted
                         n == SelectAllCount(self_data)
                         new_selected == IF ~watched THEN selected_relations
                                         ELSE IF value THEN 0 .. n - 1
                                         ELSE {}
                         found == {RelationId(k) : k \in 0 .. n - 1} \cap DOMAIN checkbox
                         changed == IF watched
                                    THEN {c \in found : checkbox[c].value # value}
                                    ELSE {}
                     IN  /\ select_all_relations' = value
                         /\ selected_relations' = new_selected
                         /\ text_static' = WatchText(new_selected # selected_relations,
                                                     show_anatomy, show_observation,
                                                     new_selected)
                         /\ checkbox' = [c \in DOMAIN checkbox |->
                                           IF c \in changed
                                           THEN Checkbox(checkbox[c].label, value)
                                           ELSE checkbox[c]]
                         /\ queue' = [c \in DOMAIN rest |->
                                        IF c \in changed THEN Append(rest[c], value)
                                        ELSE rest[c]]
                         /\ UNCHANGED <<show_anatomy, show_observation>>
                ELSE IF id # "" /\ StartsWith(id, "relation-")
                THEN LET relation_idx == PyInt(Split(id)[2])
                         new_selected == NewSelected(selected_relations, relation_idx,
                                                     value)
                     IN  /\ selected_relations' = new_selected
                         /\ text_static' = WatchText(new_selected # selected_relations,
                                                     show_anatomy, show_observation,
                                                     new_selected)
                         /\ queue' = rest
                         /\ UNCHANGED <<show_anatomy, show_observation,
                                        select_all_relations, checkbox>>
                ELSE /\ queue' = rest
                     /\ UNCHANGED <<show_anatomy, show_observation, selected_relations,
                                    select_all_relations, checkbox, text_static>>
    /\ UNCHANGED <<self_data, is_mounted, relation, last_toggled>>
    /\ UNCHANGED <<fs, cmd, pc, text, input_file, output_file, jsonl_file, row, i,
                   i_bound, line, data, viewer, nextLine, opened, linesRead, parsed,
                   viewerRuns, viewerDone, stdout, result, raised>>

\* the k-th relation of the records viewed: token k to the token after it
ViewerRel(k) == Relation(k % 3, k % 3, (k + 1) % 3, (k + 1) % 3, "located_at")

\* the "relations" key of the records viewed: absent, a flat list of 0 to MaxRels
\* items, or a list wrapping such a list
ViewerRelKeys ==
    {EmptyRecord}
    \cup {[relations |-> JList([k \in 1 .. n |-> ViewerRel(k - 1)])] : n \in 0 .. MaxRels}
    \cup {[relations |-> JList(<<JList([k \in 1 .. n |-> ViewerRel(k - 1)])>>)] :
            n \in 0 .. MaxRels}

\* the "ner" key of the records viewed: an Anatomy and an Observation span, or the
\* empty nested list
ViewerNerKeys ==
    { [ner |-> JList(<<Span(0, 0, "Anatomy::definitely present"),
                       Span(2, 2, "Observation::definitely absent")>>)],
      [ner |-> JList(<<JList(<<>>)>>)] }

\* a viewer constructed and not yet run
InitViewer ==
    /\ CliIdle
    /\ \E nk \in ViewerNerKeys, rk \in ViewerRelKeys :
         self_data = [tokens |-> <<"lung", "is", "clear">>] @@ nk @@ rk
    /\ show_anatomy = TRUE
    /\ show_observation = TRUE
    /\ selected_relations = {}
    /\ select_all_relations = FALSE
    /\ is_mounted = FALSE
    /\ checkbox = <<>>
    /\ queue = <<>>
    /\ text_static = ""
    /\ relation = JList(<<>>)
    /\ last_toggled = ""

NextViewer ==
    \/ compose
    \/ toggle
    \/ on_checkbox_changed

SpecViewer == InitViewer /\ [][NextViewer]_vars


Next ==
    \/ extract_entities
    \/ cli_extract_entities
    \/ help_print
    \/ show_jsonl_row
    \/ Validate
    \/ OpenFile
    \/ NextLine
    \/ ParseLine
    \/ StartViewer
    \/ ViewerFinished
    \/ OutOfBounds

Spec == Init /\ [][Next]_vars

(* ------------------------------ claims -------------------------------- *)

Returned(c) == cmd = c /\ pc = "done" /\ raised.type = "none"

FileJson(p) == json_loads(JoinLines(fs[p].lines))

IsPlainTextInput(p) == fs[p].exists /\ PathSuffix(p) # ".json"

IsJsonInput(p) == fs[p].exists /\ PathSuffix(p) = ".json" /\ FileJson(p).ok

\* the text the "extract" command is to work on
InputText(p) ==
    IF PathSuffix(p) = ".json" THEN FileJson(p).value.text ELSE JoinLines(fs[p].lines)

\* C2: after the "extract" command completes with an output file given, the output
\* file holds a JSON object with a "text" key and an "entities" list, "text" being
\* the whole content of a plain-text input or the "text" field of a JSON input.
C2_OutputHoldsResult ==
    ( /\ Returned("extract")
      /\ output_file # None
      /\ \/ IsPlainTextInput(input_file)
         \/ IsJsonInput(input_file) /\ "text" \in DOMAIN FileJson(input_file).value )
    => /\ fs[output_file].exists
       /\ FileJson(output_file).ok
       /\ {"text", "entities"} \subseteq DOMAIN FileJson(output_file).value
       /\ FileJson(output_file).value.text = InputText(input_file)

\* C3: when the JSON input of the "extract" command already has "entities" and
\* "relations", the written output has the same "entities", "relations" and "text".
C3_ExistingFieldsPreserved ==
    ( /\ Returned("extract")
      /\ output_file # None
      /\ IsJsonInput(input_file)
      /\ {"text", "entities", "relations"} \subseteq DOMAIN FileJson(input_file).value )
    => /\ fs[output_file].exists
       /\ FileJson(output_file).ok
       /\ {"text", "entities", "relations"} \subseteq DOMAIN FileJson(output_file).value
       /\ FileJson(output_file).value.text = FileJson(input_file).value.text
       /\ FileJson(output_file).value.entities = FileJson(input_file).value.entities
       /\ FileJson(output_file).value.relations = FileJson(input_file).value.relations

\* C4: the "extract" command raises ValueError (the input must contain a 'text' or
\* 'tokens' field) whenever its input is a valid JSON object with neither field.
C4_MissingTextFieldRaises ==
    ( /\ cmd = "extract"
      /\ pc = "done"
      /\ IsJsonInput(input_file)
      /\ "text" \notin DOMAIN FileJson(input_file).value
      /\ "tokens" \notin DOMAIN FileJson(input_file).value )
    => raised.type = "ValueError"

\* C5: the "extract" command raises ValueError ("Invalid JSON") whenever its input
\* has the suffix .json and is not parseable JSON.
C5_InvalidJsonRaises ==
    ( /\ cmd = "extract"
      /\ pc = "done"
      /\ fs[input_file].exists
      /\ PathSuffix(input_file) = ".json"
      /\ ~FileJson(input_file).ok )
    => raised.type = "ValueError"

\* show_jsonl_row is past its argument checks
Validated == cmd = "show-row" /\ pc # "validate"

NothingTouched ==
    /\ opened = {}
    /\ linesRead = {}
    /\ parsed = {}
    /\ viewer = NoViewer
    /\ viewerRuns = 0

\* C6: show_jsonl_row raises ValueError "File does not exist" whenever the file does
\* not exist, whatever the row and the suffix, and opens no file and starts no viewer.
C6_MissingFileRaises ==
    (Validated /\ ~fs[jsonl_file].exists) =>
        /\ pc = "done"
        /\ raised.type = "ValueError"
        /\ raised.msg = "File does not exist: {jsonl_file}"
        /\ raised.args = <<jsonl_file>>
        /\ NothingTouched

\* a missing file without the .jsonl suffix, asked for a negative row
C6_Witness ==
    /\ Validated
    /\ ~fs[jsonl_file].exists
    /\ PathSuffix(jsonl_file) # ".jsonl"
    /\ row < 0
    /\ raised.msg = "File does not exist: {jsonl_file}"

\* C7: show_jsonl_row raises ValueError "File must have .jsonl extension" whenever
\* the file exists and its suffix is not exactly ".jsonl", whatever the row, and
\* reads no file and starts no viewer.
C7_WrongExtensionRaises ==
    (Validated /\ fs[jsonl_file].exists /\ PathSuffix(jsonl_file) # ".jsonl") =>
        /\ pc = "done"
        /\ raised.type = "ValueError"
        /\ raised.msg = "File must have .jsonl extension: {jsonl_file}"
        /\ raised.args = <<jsonl_file>>
        /\ NothingTouched

\* an existing file with the suffix .JSONL, asked for a negative row
C7_Witness ==
    /\ Validated
    /\ fs[jsonl_file].exists
    /\ PathSuffix(jsonl_file) = ".JSONL"
    /\ row < 0
    /\ raised.msg = "File must have .jsonl extension: {jsonl_file}"

\* C8: show_jsonl_row raises ValueError "Row index must be non-negative" whenever
\* the file is an existing .jsonl file and row < 0, and reads no line and starts no
\* viewer.
C8_NegativeRowRaises ==
    (Validated /\ fs[jsonl_file].exists /\ PathSuffix(jsonl_file) = ".jsonl" /\ row < 0) =>
        /\ pc = "done"
        /\ raised.type = "ValueError"
        /\ raised.msg = "Row index must be non-negative, got: {row}"
        /\ raised.args = <<row>>
        /\ NothingTouched

\* an existing .jsonl file with lines, asked for row -1
C8_Witness ==
    /\ Validated
    /\ fs[jsonl_file].exists
    /\ PathSuffix(jsonl_file) = ".jsonl"
    /\ Len(fs[jsonl_file].lines) > 0
    /\ row = -1
    /\ raised.msg = "Row index must be non-negative, got: {row}"

\* show_jsonl_row is past its argument checks and none of them raised
Reading ==
    /\ Validated
    /\ fs[jsonl_file].exists
    /\ PathSuffix(jsonl_file) = ".jsonl"
    /\ row >= 0

FileRows == Len(fs[jsonl_file].lines)

\* C9: for every existing .jsonl file with n lines, n >= 0, and every row >= n,
\* show_jsonl_row raises ValueError saying the row index is out of bounds and that
\* the file has n rows, and never starts the viewer.
C9_OutOfBoundsRaises ==
    (Reading /\ row >= FileRows /\ pc = "done") =>
        /\ raised.type = "ValueError"
        /\ raised.msg = "Row index {row} out of bounds (file has {i + 1} rows)"
        /\ raised.args = <<row, FileRows>>
        /\ viewerRuns = 0

\* the line show_jsonl_row is asked to show
RowLine == fs[jsonl_file].lines[row + 1]

\* C10: for an existing .jsonl file with n lines and 0 <= row < n, show_jsonl_row
\* hands to json.loads the line at 0-based index row and no other line; when that
\* line is valid JSON it starts exactly one viewer, whose data is the parsed object
\* of that line, and returns only after the viewer has finished; it never raises the
\* out-of-bounds error.
C10_ShowsRequestedRow ==
    (Reading /\ row < FileRows) =>
        /\ parsed \subseteq {row}
        /\ viewerRuns <= 1
        /\ pc # "exhausted"
        /\ raised.msg # "Row index {row} out of bounds (file has {i + 1} rows)"
        /\ raised.type # "UnboundLocalError"
        /\ viewerRuns = 1 => /\ viewer = NERViewer(json_loads(RowLine).value)
                             /\ json_loads(RowLine).ok
        /\ pc = "done" =>
             /\ parsed = {row}
             /\ viewerDone = viewerRuns
             /\ json_loads(RowLine).ok =>
                  /\ viewerRuns = 1
                  /\ raised.type = "none"
                  /\ result = None

\* row 1 of a two-line file whose row 0 is malformed has been shown
C10_Witness ==
    /\ Reading
    /\ pc = "done"
    /\ row = 1
    /\ FileRows = 2
    /\ ~json_loads(fs[jsonl_file].lines[1]).ok
    /\ viewerDone = 1
    /\ viewer.data = json_loads(RowLine).value

Printed(l) == \E k \in 1 .. Len(stdout) : stdout[k] = l

\* C11: the help output of the app lists its commands, and among them are the
\* command name "extract" and the command name "display".
C11_HelpListsCommands ==
    (cmd = "help_print" /\ pc = "done") =>
        /\ Printed("Commands")
        /\ Printed("extract")
        /\ Printed("display")

(* ------------------------ claims: _render_text ------------------------ *)

Rendered == cmd \in {"viewer._render_text", "cli._render_text"} /\ pc = "done"

RenderedOk == Rendered /\ raised.type = "none"

Markups == {"", "green", "blue", "red", "yellow", "underline on yellow"}

\* reads a rendered string back as one markup per token: ok when the string is the
\* tokens in order, separated by single spaces, each bare or in one markup pair
RECURSIVE ParseRendered(_, _)
ParseRendered(str, tokens) ==
    IF tokens = <<>> THEN [ok |-> str = "", value |-> <<>>]
    ELSE LET last == Len(tokens) = 1
             Fits(m) == LET piece == Wrap(m, Head(tokens))
                        IN  IF last THEN str = piece
                            ELSE /\ Len(str) > Len(piece)
                                 /\ SubSeq(str, 1, Len(piece) + 1) = piece \o " "
             cands == {m \in Markups : Fits(m)}
         IN  IF Cardinality(cands) # 1 THEN [ok |-> FALSE, value |-> <<>>]
             ELSE LET m == CHOOSE c \in cands : TRUE
                      piece == Wrap(m, Head(tokens))
                      rest == ParseRendered(IF last THEN ""
                                            ELSE SubSeq(str, Len(piece) + 2, Len(str)),
                                            Tail(tokens))
                  IN  [ok |-> rest.ok, value |-> <<m>> \o rest.value]

\* the tokens the claims speak of
ClaimedTokens ==
    IF "tokens" \in DOMAIN self_data THEN self_data.tokens
    ELSE IF "sentences" \in DOMAIN self_data THEN Flatten(self_data.sentences)
    ELSE <<>>

\* the markup of each token in the string returned
ResultMarkups == ParseRendered(result, ClaimedTokens).value

\* the NER items of the record rendered
NerItems == NestedOrFlat(Get(self_data, "ner")).value

IsSpan(item) == Len(item.v) >= 3

SpanLabel(item) == item.v[3].s

Covers(item, idx) == item.v[1].n <= idx /\ idx <= item.v[2].n

FilterOn(label) ==
    /\ Contains("Anatomy", label) => show_anatomy
    /\ Contains("Observation", label) => show_observation

\* token indices taken by the selected relations, whose highlight is not a NER color
RelationMarked ==
    SelectedRelationTokens(Get(self_data, "relations"), selected_relations).value

\* C12: a NER span colors tokens only while its filter is on: an Anatomy span only
\* while show_anatomy, an Observation span only while show_observation; a span whose
\* label has neither word colors its tokens whatever the flags are.
C12_FilteredSpansNotColored ==
    RenderedOk =>
        LET markups == ResultMarkups
            items == NerItems
            marked == RelationMarked
        IN  \A k \in 1 .. Len(ClaimedTokens) :
                (k - 1) \notin marked =>
                    /\ markups[k] # "" =>
                         \E j \in 1 .. Len(items) :
                            /\ IsSpan(items[j])
                            /\ Covers(items[j], k - 1)
                            /\ FilterOn(SpanLabel(items[j]))
                    /\ \A j \in 1 .. Len(items) :
                         ( /\ IsSpan(items[j])
                           /\ Covers(items[j], k - 1)
                           /\ ~Contains("Anatomy", SpanLabel(items[j]))
                           /\ ~Contains("Observation", SpanLabel(items[j])) )
                         => markups[k] # ""

\* both filters off: the token under an Anatomy span only is bare, the tokens under
\* a span labelled "test" are colored
C12_Witness ==
    /\ RenderedOk
    /\ ~show_anatomy
    /\ ~show_observation
    /\ Get(self_data, "ner") = JList(<<Span(0, 1, "Anatomy::definitely present"),
                                       Span(1, 5, "test")>>)
    /\ result = "lung [yellow]is[/yellow] [yellow]clear[/yellow]"

\* the color the claim gives a label
ClaimedColor(label) ==
    IF label = "Anatomy::definitely present" THEN "green"
    ELSE IF label = "Observation::definitely present" THEN "blue"
    ELSE IF label \in {"Anatomy::definitely absent", "Observation::definitely absent"}
    THEN "red"
    ELSE "yellow"

Last(S) == CHOOSE j \in S : \A other \in S : other <= j

\* C13: every visible NER span [start, end, label] colors every token index from
\* start to end, end included, with the color of its label (green, blue, red, or
\* yellow for uncertain and unknown labels); the last covering span of the ner list
\* decides; indices outside the token list are ignored without error.
C13_SpanColors ==
    Rendered =>
        ( NestedOrFlat(Get(self_data, "ner")).ok =>
            /\ raised.type = "none"
            /\ LET markups == ResultMarkups
                   items == NerItems
                   marked == RelationMarked
               IN  \A k \in 1 .. Len(ClaimedTokens) :
                       (k - 1) \notin marked =>
                           LET over == {j \in 1 .. Len(items) :
                                          /\ IsSpan(items[j])
                                          /\ FilterOn(SpanLabel(items[j]))
                                          /\ Covers(items[j], k - 1)}
                           IN  markups[k] =
                                  IF over = {} THEN ""
                                  ELSE ClaimedColor(SpanLabel(items[Last(over)])) )

\* a blue span under a later span that runs past the last token: the later one wins
C13_Witness ==
    /\ RenderedOk
    /\ show_anatomy
    /\ show_observation
    /\ Get(self_data, "ner") = JList(<<Span(1, 2, "Observation::definitely present"),
                                       Span(1, 5, "test")>>)
    /\ result = "lung [yellow]is[/yellow] [yellow]clear[/yellow]"

\* the record rendered has its NER items wrapped in a one-element list
NerIsWrapped ==
    /\ "ner" \in DOMAIN self_data
    /\ Len(self_data.ner.v) = 1
    /\ IsList(self_data.ner.v[1])
    /\ \A j \in 1 .. Len(self_data.ner.v[1].v) : IsList(self_data.ner.v[1].v[j])

\* the same record with the wrapped list of items put flat
Unwrapped == [self_data EXCEPT !.ner = self_data.ner.v[1]]

\* C16: rendering a record whose ner is a one-element list wrapping the list of
\* spans, the empty wrapped list [[]] included, gives without error the output of
\* rendering the record with the flat list of the same spans.
C16_NestedRendersAsFlat ==
    (Rendered /\ NerIsWrapped) =>
        /\ raised.type = "none"
        /\ cmd = "viewer._render_text" =>
             result = RenderText(Unwrapped, show_anatomy, show_observation,
                                 selected_relations).value
        /\ cmd = "cli._render_text" =>
             result = cli_RenderText(Unwrapped, show_anatomy, show_observation,
                                     selected_relations).value

\* C17: the output of _render_text has every token once, in order, separated by
\* single spaces, each bare or wrapped in one markup pair; the tokens are
\* data["tokens"] when present, else the flattened data["sentences"], else none;
\* whatever the filter flags and selected_relations are.
C17_OutputIsTokensInOrder ==
    RenderedOk => ParseRendered(result, ClaimedTokens).ok

\* a record with both keys rendered from "tokens", one token of it highlighted
C17_Witness ==
    /\ RenderedOk
    /\ {"tokens", "sentences"} \subseteq DOMAIN self_data
    /\ selected_relations = {0}
    /\ ~show_anatomy
    /\ result # Join(self_data.tokens)
    /\ ParseRendered(result, self_data.tokens).ok

\* the relation items of the record rendered
RelItems == NestedOrFlat(Get(self_data, "relations")).value

\* the token at idx lies in an entity of a selected relation that exists and has
\* at least 5 fields
InSelectedRelation(idx) ==
    \E r \in selected_relations :
        /\ r < Len(RelItems)
        /\ Len(RelItems[r + 1].v) >= 5
        /\ \/ RelItems[r + 1].v[1].n <= idx /\ idx <= RelItems[r + 1].v[2].n
           \/ RelItems[r + 1].v[3].n <= idx /\ idx <= RelItems[r + 1].v[4].n

Formatted == pc = "done" /\ cmd \in {"viewer._format_relation", "cli._format_relation"}

\* the tokens at the indices start .. end that exist, start not negative
TokensAt(start, end) ==
    SubSeq(ClaimedTokens, start + 1, Min(end + 1, Len(ClaimedTokens)))

\* the relation formatted has five fields, neither index below 0
NonNegative ==
    /\ Len(relation.v) >= 5
    /\ \A k \in 1 .. 4 : relation.v[k].n >= 0

ViewerGroup(start, end) ==
    IF TokensAt(start, end) # <<>> THEN Join(TokensAt(start, end))
    ELSE "⟦" \o ToString(start) \o ":" \o ToString(end) \o "⟧"

\* what cli.NERViewer shows of an entity: its tokens when start and end are both
\* indices of tokens, else nothing
CliGroup(start, end) ==
    IF start <= end /\ end < Len(ClaimedTokens)
    THEN Join(SubSeq(ClaimedTokens, start + 1, end + 1))
    ELSE ""

C19_InvalidJsonAtRow ==
    (Reading /\ row < FileRows /\ ~json_loads(RowLine).ok) =>
        /\ viewerRuns = 0
        /\ viewer = NoViewer
        /\ pc \notin {"construct", "viewer"}
        /\ pc = "done" =>
             /\ raised.type = "ValueError"
             /\ raised.msg = "Invalid JSON at row {row}: {e}"
             /\ raised.args = <<row, "JSONDecodeError">>
             /\ parsed = {row}

\* row 1 of a file of two lines is not JSON, the line before it is: the call has
\* ended with the error of row 1
C19_Witness ==
    /\ Reading
    /\ pc = "done"
    /\ row = 1
    /\ FileRows = 2
    /\ json_loads(fs[jsonl_file].lines[1]).ok
    /\ RowLine = LineInvalid
    /\ raised.args = <<1, "JSONDecodeError">>
    /\ viewerRuns = 0

(* C14, C20: the mounted viewer *)

\* the checkboxes of relations that the viewer shows
RelationBoxes == {c \in DOMAIN checkbox : StartsWith(c, "relation-")}

\* the relations the viewer displays, in flat or nested format
Displayed ==
    LET relations == Get(self_data, "relations").v
    IN  IF relations # <<>> /\ relations[1].v # <<>> /\ IsList(relations[1].v[1])
        THEN relations[1].v
        ELSE relations

\* the user's last click was on "Select All" and every message has been handled
SelectAllSettled ==
    /\ is_mounted
    /\ last_toggled = "select-all-relations"
    /\ Pending = 0

\* C14: in a mounted viewer, once "Select All" has been checked and every resulting
\* Checkbox.Changed message handled, selected_relations is 0 .. n-1 for the n
\* relations displayed (flat or nested format) and every relation checkbox is
\* checked; once it has been unchecked, selected_relations is empty and every
\* relation checkbox is unchecked.
C14_SelectAllSelectsEveryRelation ==
    SelectAllSettled =>
        /\ RelationBoxes = {RelationId(k) : k \in 0 .. Len(Displayed) - 1}
        /\ IF checkbox["select-all-relations"].value
           THEN /\ selected_relations = 0 .. Len(Displayed) - 1
                /\ \A c \in RelationBoxes : checkbox[c].value
           ELSE /\ selected_relations = {}
                /\ \A c \in RelationBoxes : ~checkbox[c].value

\* C20: in a mounted viewer the text widget shows _render_text() of the current
\* show_anatomy, show_observation and selected_relations, after every handled
\* checkbox message and so whenever all of them have been handled.
C20_TextNeverStale ==
    is_mounted =>
        text_static = RenderText(self_data, show_anatomy, show_observation,
                                 selected_relations).value

\* anatomy filtered out and the first of two relations checked, every message
\* handled: tokens 0 and 1 are underlined, the Observation span is red
C20_Witness ==
    /\ is_mounted
    /\ Pending = 0
    /\ ~show_anatomy
    /\ show_observation
    /\ selected_relations = {0}
    /\ Len(Displayed) = 2
    /\ last_toggled = "relation-0"
    /\ text_static = "[underline on yellow]lung[/underline on yellow] [underline on yellow]is[/underline on yellow] [red]clear[/red]"

(* C21: what on_checkbox_changed changes *)

\* this step handles a Checkbox.Changed message of the checkbox id
Handles(id) ==
    /\ is_mounted
    /\ id \in DOMAIN queue
    /\ queue[id] # <<>>
    /\ id \in DOMAIN queue'
    /\ Len(queue'[id]) < Len(queue[id])

\* the value of the message handled
EventValue(id) == Head(queue[id])

\* the effect claimed of a filter event and of an event of a checkbox relation-i
FilterAndRelationEffects(id) ==
    /\ id = "checkbox-anatomy" =>
         /\ show_anatomy' = EventValue(id)
         /\ UNCHANGED <<show_observation, selected_relations>>
    /\ id = "checkbox-observation" =>
         /\ show_observation' = EventValue(id)
         /\ UNCHANGED <<show_anatomy, selected_relations>>
    /\ \A k \in 0 .. MaxRels :
         id = RelationId(k) =>
           /\ (k \in selected_relations') = EventValue(id)
           /\ \A j \in 0 .. MaxRels :
                j # k => ((j \in selected_relations') = (j \in selected_relations))
           /\ selected_relations' \subseteq 0 .. MaxRels
           /\ UNCHANGED <<show_anatomy, show_observation, select_all_relations>>

\* the checkbox id is none of the two filters and no relation-i
OtherId(id) ==
    /\ id \notin {"checkbox-anatomy", "checkbox-observation"}
    /\ \A k \in 0 .. MaxRels : id # RelationId(k)

\* C21 as stated: on_checkbox_changed sets show_anatomy (show_observation) to the
\* value of an anatomy (observation) filter event and leaves the other flag and
\* selected_relations as they are; an event of relation-i puts i into
\* selected_relations when checked and takes it out when unchecked, every other
\* index and both filter flags and select_all_relations staying as they are; an
\* event of any other checkbox id changes nothing.
C21_OnlyFiredCheckboxChanges ==
    [][\A id \in DOMAIN queue :
         Handles(id) =>
           /\ FilterAndRelationEffects(id)
           /\ OtherId(id) =>
                UNCHANGED <<show_anatomy, show_observation, selected_relations,
                            select_all_relations, checkbox, text_static>>]_vars

\* C21, amended: the filter and relation-i events as stated, none of them changing
\* the value of any checkbox; an event of "select-all-relations" sets
\* select_all_relations to its value and leaves both filter flags as they are,
\* while selected_relations and the relation checkboxes may change; an event of
\* an id that is none of these changes nothing.
C21_FiredCheckboxAndSelectAll ==
    [][\A id \in DOMAIN queue :
         Handles(id) =>
           /\ FilterAndRelationEffects(id)
           /\ id # "select-all-relations" => UNCHANGED <<checkbox, select_all_relations>>
           /\ id = "select-all-relations" =>
                /\ select_all_relations' = EventValue(id)
                /\ UNCHANGED <<show_anatomy, show_observation>>
                /\ \A c \in DOMAIN checkbox \ RelationBoxes : checkbox'[c] = checkbox[c]
           /\ (OtherId(id) /\ id # "select-all-relations") =>
                UNCHANGED <<show_anatomy, show_observation, selected_relations,
                            select_all_relations, checkbox, text_static>>]_vars

\* the event of relation-1 checked has been handled with relation 0 selected
\* before and anatomy filtered out: both are selected, nothing else has moved
C21_Witness ==
    /\ is_mounted
    /\ Pending = 0
    /\ last_toggled = "relation-1"
    /\ checkbox["relation-1"].value
    /\ selected_relations = {0, 1}
    /\ ~show_anatomy
    /\ show_observation
    /\ ~select_all_relations
    /\ ~checkbox["select-all-relations"].value

====
